---- MODULE Spec2Model ----
(***************************************************************************)
(* MidiToLedController (src/midi_to_led.py): a MIDI score is replayed and  *)
(* turned into "ON <i>" / "OFF <i>" commands written to a serial           *)
(* transport.                                                              *)
(*                                                                         *)
(* Time is counted in units of 0.025 s, so that the drain tick (0.05 s) is *)
(* 2 units and the default duration (0.1 s) is 4 units; the rounding of    *)
(* binary floating point is not modelled.                                  *)
(***************************************************************************)
EXTENDS Integers, Sequences, FiniteSets, TLC

VARIABLES
    num_leds,        \* self.num_leds
    min_midi_note,   \* self.min_midi_note
    max_midi_note,   \* self.max_midi_note
    score,           \* the messages of self.midi_file, as mido yields them
    budget,          \* how often the environment may call, fail and cancel
    ser,             \* self.ser: None or Ref (a serial.Serial object)
    own_ser,         \* self.own_ser
    port_open,       \* is_open of the serial object (opened or supplied)
    note_active,     \* self.note_active: key -> list of (start, duration),
                     \*   the keys of 1..88 whose list is empty left out
    led_states,      \* self.led_states, as the set of indices that hold True
    note_durations,  \* the local note_durations of play_midi
    current_time,    \* the local current_time of play_midi
    end_time,        \* the local end_time of play_midi
    idx,             \* index in score of the message the loop is waiting for
    led_i,           \* loop variable of "for led_index/i in range(num_leds)"
    pc,              \* where the task is
    ret,             \* where a post-command delay returns to
    exc,             \* the exception in flight while the finally clause runs
    mode,            \* who runs cleanup: play_midi's finally or the caller
    result,          \* how play_midi ended in this session
    device,          \* the set of LEDs the receiver has lit
    sent,            \* commands written to the transport in this session
    observed,        \* keys handed to play_function in this session
    n_created,       \* Active Intervals appended in this session
    created,         \* their log: message index, key and duration of each
    n_events,        \* timeline messages processed in this session
    teardown_runs,   \* runs of cleanup's body (its guard passed) this session
    cleanup_done,    \* cleanup ran to its end in this session
    handled,         \* the caller's error handler has called cleanup()
    led_at_cancel,   \* led_states when the task was cancelled
    fail_kind,       \* the command whose write failed in update_led, or "none"
    fail_at,         \* its channel and the number of commands written before
    acq_fault,       \* "open" / "load": serial.Serial / the pre-pass load raised
    sessions,        \* play_midi calls so far
    write_fails,     \* failed writes so far
    cancels,         \* cancellations so far
    lookups,         \* what a caller of the two lookup methods got so far
    tick_start,      \* led_states and the number of commands written when
                     \*   the latest drain tick began
    first_run        \* what an earlier controller did with the timeline this
                     \*   one's timeline was derived from, or NoRun

vars == <<num_leds, min_midi_note, max_midi_note, score, budget, ser, own_ser, port_open,
          note_active, led_states, note_durations, current_time, end_time, idx,
          led_i, pc, ret, exc, mode, result, device, sent, observed, n_created, created,
          n_events, teardown_runs, cleanup_done, handled, led_at_cancel,
          fail_kind, fail_at, acq_fault, sessions, write_fails, cancels, lookups,
          tick_start, first_run>>

(***************************************************************************)
(* Bounds of the model: the length of a score, the calls of play_midi on   *)
(* one controller, the writes that raise and the cancellations.            *)
(***************************************************************************)
MaxEvents == 3
MaxSessions == 1
MaxWriteFailures == 1
MaxCancels == 1

(***************************************************************************)
(* Program constants.                                                      *)
(***************************************************************************)
None == -1
Ref == 1
DefaultNumLeds == 142
DefaultMinMidiNote == 21
DefaultMaxMidiNote == 108
NumPianoKeys == 88
LedOffset == 2
DefaultDuration == 4
DrainTick == 2

key_to_led_map ==
    << 2, 4, 6, 8, 10, 12, 14, 16, 17, 19,
       21, 23, 25, 27, 29, 31, 33, 35, 37, 38,
       40, 42, 44, 46, 48, 50, 52, 54, 56, 58,
       60, 61, 63, 65, 67, 69, 71, 73, 75, 77,
       79, 81, 83, 84, 86, 88, 90, 92, 94, 96,
       98, 100, 102, 104, 106, 108, 109, 111, 113, 115,
       117, 119, 121, 123, 125, 127, 129, 131, 132, 134,
       136, 140, 142 >>


(***************************************************************************)
(* Scores the model replays: every sequence of at most MaxEvents messages  *)
(* over Messages.  A message is what mido yields: its type, note, velocity *)
(* and the time since the previous message (in units of 0.025 s).          *)
(***************************************************************************)
Msg(ty, n, v, t) == [type |-> ty, note |-> n, velocity |-> v, time |-> t]

Messages ==
    { Msg("note_on", 21, 64, 0), Msg("note_off", 21, 0, 5),
      Msg("note_on", 22, 64, 5), Msg("note_off", 22, 0, 1),
      Msg("note_on", 22, 0, 3) }

Scores == UNION { [1..n -> Messages] : n \in 0..MaxEvents }

Configs == { [num_leds |-> DefaultNumLeds, min_midi_note |-> DefaultMinMidiNote,
              max_midi_note |-> DefaultMaxMidiNote] }

(***************************************************************************)
(* Pure functions of the controller.                                       *)
(***************************************************************************)
EmptyDict == [k \in {} |-> 0]

Put(d, k, v) == [x \in (DOMAIN d) \cup {k} |-> IF x = k THEN v ELSE d[x]]

Del(d, k) == [x \in (DOMAIN d) \ {k} |-> d[x]]

Get(d, k, default) == IF k \in DOMAIN d THEN d[k] ELSE default

MinOf(S) == CHOOSE x \in S : \A y \in S : x <= y

MaxOf(S) == CHOOSE x \in S : \A y \in S : x >= y

midi_to_piano_key(midi_note) ==
    IF min_midi_note <= midi_note /\ midi_note <= max_midi_note
    THEN midi_note - min_midi_note + 1
    ELSE None

\* (Mutant: the led is not compared with num_leds.)
piano_key_to_led_NoBound(key) ==
    IF key \in DOMAIN key_to_led_map
    THEN key_to_led_map[key] - LedOffset
    ELSE None

piano_key_to_led(key) ==
    IF key \in DOMAIN key_to_led_map /\ key_to_led_map[key] - LedOffset < num_leds
    THEN key_to_led_map[key] - LedOffset
    ELSE None

keys_for_led(led_index) ==
    { k \in DOMAIN key_to_led_map :
        key_to_led_map[k] - LedOffset = led_index
        /\ key_to_led_map[k] - LedOffset < num_leds }

\* Python's truth value of a key: None and 0 are false.
Truthy(key) == key # None /\ key # 0

\* (Mutant: a note_on starts a note whatever its velocity.)
IsNoteOn_AnyVelocity(m) == m.type = "note_on"

IsNoteOn(m) == m.type = "note_on" /\ m.velocity > 0

\* (Mutant: a note_on of velocity 0 is not taken as a note-off.)
IsNoteOff_TypeOnly(m) == m.type = "note_off"

IsNoteOff(m) == m.type = "note_off" \/ (m.type = "note_on" /\ m.velocity = 0)

\* (Mutant: an interval does not count at the instant it begins.)
Live_AfterStart(iv, t) == iv[1] < t /\ t < iv[1] + iv[2]

\* (Mutant: an interval is kept at the instant it ends.)
Live_Inclusive(iv, t) == t <= iv[1] + iv[2]

\* The list comprehension [(t, d) for t, d in ... if current_time < t + d].
Live(iv, t) == t < iv[1] + iv[2]

Prune(ivs, t) == SelectSeq(ivs, LAMBDA iv : Live(iv, t))

\* self.note_active[key], and its assignment.
Active(na, key) == Get(na, key, <<>>)

SetActive(na, key, ivs) == IF ivs = <<>> THEN Del(na, key) ELSE Put(na, key, ivs)

\* note_active after update_led's loop over the keys of the leds in leds.
\* (k is in keys_for_led(l) exactly when piano_key_to_led(k) = l.)
PruneLeds(na, leds, t) ==
    LET pruned(k) == IF piano_key_to_led(k) \in leds THEN Prune(na[k], t)
                     ELSE na[k]
    IN  [k \in { x \in DOMAIN na : pruned(x) # <<>> } |-> pruned(k)]

\* new_state of update_led(led_index, t) on the intervals na.
NewState(na, led_index, t) ==
    \E k \in keys_for_led(led_index) : Prune(Active(na, k), t) # <<>>

\* self.led_states[led_index] = new_state
SetLed(ls, led_index, new_state) ==
    IF new_state THEN ls \cup {led_index} ELSE ls \ {led_index}

\* (Mutant: the command carries the led's number in key_to_led_map, not its
\* index.)
Command_LedNumber(new_state, led_index, t) ==
    [cmd |-> IF new_state THEN "ON" ELSE "OFF", led |-> led_index + LedOffset,
     time |-> t]

\* command = f"{'ON' if new_state else 'OFF'} {led_index}\n"
Command(new_state, led_index, t) ==
    [cmd |-> IF new_state THEN "ON" ELSE "OFF", led |-> led_index, time |-> t]

\* (Mutant: a note-on of a key that is already open keeps the first start.)
RECURSIVE ParseFrom_KeepFirst(_, _, _, _, _)
ParseFrom_KeepFirst(s, i, t, note_starts, durs) ==
    IF i > Len(s) THEN durs
    ELSE LET m == s[i]
             now == t + m.time
             key == midi_to_piano_key(m.note)
         IN  IF IsNoteOn(m)
             THEN IF Truthy(key) /\ key \notin DOMAIN note_starts
                  THEN ParseFrom_KeepFirst(s, i + 1, now,
                                           Put(note_starts, key, now), durs)
                  ELSE ParseFrom_KeepFirst(s, i + 1, now, note_starts, durs)
             ELSE IF IsNoteOff(m)
             THEN IF Truthy(key) /\ key \in DOMAIN note_starts
                  THEN ParseFrom_KeepFirst(s, i + 1, now, Del(note_starts, key),
                                           Put(durs, key, now - note_starts[key]))
                  ELSE ParseFrom_KeepFirst(s, i + 1, now, note_starts, durs)
             ELSE ParseFrom_KeepFirst(s, i + 1, now, note_starts, durs)

\* parse_midi_durations, from message i on.
RECURSIVE ParseFrom(_, _, _, _, _)
ParseFrom(s, i, t, note_starts, durs) ==
    IF i > Len(s) THEN durs
    ELSE LET m == s[i]
             now == t + m.time
             key == midi_to_piano_key(m.note)
         IN  IF IsNoteOn(m)
             THEN IF Truthy(key)
                  THEN ParseFrom(s, i + 1, now, Put(note_starts, key, now), durs)
                  ELSE ParseFrom(s, i + 1, now, note_starts, durs)
             ELSE IF IsNoteOff(m)
             THEN IF Truthy(key) /\ key \in DOMAIN note_starts
                  THEN ParseFrom(s, i + 1, now, Del(note_starts, key),
                                 Put(durs, key, now - note_starts[key]))
                  ELSE ParseFrom(s, i + 1, now, note_starts, durs)
             ELSE ParseFrom(s, i + 1, now, note_starts, durs)

parse_midi_durations(s) == ParseFrom(s, 1, 0, EmptyDict, EmptyDict)

\* max(note_durations.values(), default=0)
MaxDuration(durs) ==
    IF DOMAIN durs = {} THEN 0 ELSE MaxOf({ durs[k] : k \in DOMAIN durs })


(***************************************************************************)
(* The state after __init__.  The caller either supplies an open serial    *)
(* object (ser given, own_ser false) or lets the controller open one.      *)
(***************************************************************************)
Leds == 0..(num_leds - 1)

\* No earlier controller is being compared with.
NoRun == [score |-> <<>>, table |-> EmptyDict, observed |-> <<>>, sent |-> <<>>,
          ended |-> FALSE]

\* No write of update_led has failed in this session.
NoFailure == [led |-> None, n_sent |-> 0]

Init ==
    /\ \E c \in Configs :
          /\ num_leds = c.num_leds
          /\ min_midi_note = c.min_midi_note
          /\ max_midi_note = c.max_midi_note
          /\ led_states = {}
          /\ device = {}
    /\ score \in Scores
    /\ budget = [sessions |-> MaxSessions, write_fails |-> MaxWriteFailures,
                 cancels |-> MaxCancels]
    /\ \E borrowed \in BOOLEAN :
          /\ ser = IF borrowed THEN Ref ELSE None
          /\ own_ser = ~borrowed
          /\ port_open = borrowed
    /\ note_active = EmptyDict
    /\ note_durations = EmptyDict
    /\ current_time = 0
    /\ end_time = 0
    /\ idx = 0
    /\ led_i = 0
    /\ pc = "idle"
    /\ ret = "none"
    /\ exc = "none"
    /\ mode = "none"
    /\ result = "none"
    /\ sent = <<>>
    /\ observed = <<>>
    /\ n_created = 0
    /\ created = <<>>
    /\ n_events = 0
    /\ teardown_runs = 0
    /\ cleanup_done = FALSE
    /\ handled = FALSE
    /\ led_at_cancel = {}
    /\ fail_kind = "none" /\ fail_at = NoFailure
    /\ acq_fault = "none"
    /\ sessions = 0
    /\ write_fails = 0
    /\ cancels = 0
    /\ lookups = <<>>
    /\ tick_start = [leds |-> {}, n_sent |-> 0]
    /\ first_run = NoRun

config == <<num_leds, min_midi_note, max_midi_note, score, budget>>
faults == <<write_fails, cancels>>

(***************************************************************************)
(* play_midi is called: on a new controller, or again on one whose earlier *)
(* session has ended.  The locals and the session's logs start afresh; the *)
(* controller's fields are what the earlier session left.                  *)
(***************************************************************************)
PlayMidi ==
    /\ pc \in {"idle", "done"}
    /\ sessions < budget.sessions
    /\ sessions' = sessions + 1
    /\ pc' = IF ser = None THEN "acquire" ELSE "parse"
    /\ note_durations' = EmptyDict
    /\ current_time' = 0
    /\ end_time' = 0
    /\ idx' = 0
    /\ led_i' = 0
    /\ ret' = "none"
    /\ exc' = "none"
    /\ mode' = "none"
    /\ result' = "none"
    /\ sent' = <<>>
    /\ observed' = <<>>
    /\ n_created' = 0
    /\ created' = <<>>
    /\ n_events' = 0
    /\ teardown_runs' = 0
    /\ cleanup_done' = FALSE
    /\ handled' = FALSE
    /\ led_at_cancel' = {}
    /\ fail_kind' = "none"
    /\ fail_at' = NoFailure
    /\ acq_fault' = "none"
    /\ tick_start' = [leds |-> {}, n_sent |-> 0]
    /\ UNCHANGED <<config, lookups, first_run, ser, own_ser, port_open, note_active, led_states,
                   device, faults>>

\* initialize_serial: serial.Serial(...) succeeds.
InitializeSerial ==
    /\ pc = "acquire"
    /\ ser' = Ref
    /\ own_ser' = TRUE
    /\ port_open' = TRUE
    /\ pc' = "parse"
    /\ UNCHANGED <<config, lookups, first_run, tick_start, note_active, led_states, note_durations, current_time,
                   end_time, idx, led_i, ret, exc, mode, result, device, sent,
                   observed, n_created, created, n_events, teardown_runs, cleanup_done,
                   handled, led_at_cancel, fail_kind, fail_at, acq_fault, sessions, faults>>

\* (Mutant: the except clause logs the failure and does not re-raise.)
InitializeSerialFail_Swallowed ==
    /\ pc = "acquire"
    /\ acq_fault' = "open"
    /\ pc' = "parse"
    /\ UNCHANGED <<config, lookups, first_run, tick_start, ser, own_ser, port_open, note_active, led_states,
                   note_durations, current_time, end_time, idx, led_i, ret, exc,
                   mode, result, device, sent, observed, n_created, created, n_events,
                   teardown_runs, cleanup_done, handled, led_at_cancel,
                   fail_kind, fail_at, sessions, faults>>

\* initialize_serial: serial.Serial(...) raises, and play_midi with it.
InitializeSerialFail ==
    /\ pc = "acquire"
    /\ acq_fault' = "open"
    /\ pc' = "done"
    /\ result' = "SerialOpenError"
    /\ UNCHANGED <<config, lookups, first_run, tick_start, ser, own_ser, port_open, note_active, led_states,
                   note_durations, current_time, end_time, idx, led_i, ret, exc,
                   mode, device, sent, observed, n_created, created, n_events,
                   teardown_runs, cleanup_done, handled, led_at_cancel,
                   fail_kind, fail_at, sessions, faults>>

\* note_durations = self.parse_midi_durations(): the file loads.
ParseMidiDurations ==
    /\ pc = "parse"
    /\ note_durations' = parse_midi_durations(score)
    /\ pc' = "load"
    /\ UNCHANGED <<config, lookups, first_run, tick_start, ser, own_ser, port_open, note_active, led_states,
                   current_time, end_time, idx, led_i, ret, exc, mode, result,
                   device, sent, observed, n_created, created, n_events, teardown_runs,
                   cleanup_done, handled, led_at_cancel, fail_kind, fail_at, acq_fault, sessions,
                   faults>>

\* (Mutant: the except clause logs the failure and returns an empty table.)
ParseMidiDurationsFail_Swallowed ==
    /\ pc = "parse"
    /\ acq_fault' = "load"
    /\ pc' = "load"
    /\ UNCHANGED <<config, lookups, first_run, tick_start, ser, own_ser, port_open, note_active, led_states,
                   note_durations, current_time, end_time, idx, led_i, ret, exc,
                   mode, result, device, sent, observed, n_created, created, n_events,
                   teardown_runs, cleanup_done, handled, led_at_cancel,
                   fail_kind, fail_at, sessions, faults>>

\* mido.MidiFile raises in parse_midi_durations: play_midi raises, outside its try.
ParseMidiDurationsFail ==
    /\ pc = "parse"
    /\ acq_fault' = "load"
    /\ pc' = "done"
    /\ result' = "LoadError"
    /\ UNCHANGED <<config, lookups, first_run, tick_start, ser, own_ser, port_open, note_active, led_states,
                   note_durations, current_time, end_time, idx, led_i, ret, exc,
                   mode, device, sent, observed, n_created, created, n_events,
                   teardown_runs, cleanup_done, handled, led_at_cancel,
                   fail_kind, fail_at, sessions, faults>>

(***************************************************************************)
(* Control transfers shared by the steps of play_midi.                     *)
(***************************************************************************)
\* An exception (or none) reaches the finally clause: cleanup starts.
EnterCleanup(e) ==
    /\ pc' = "cleanup"
    /\ exc' = e
    /\ mode' = "finally"
    /\ led_i' = 0

\* The while loop's test at time t.
DrainTest(t) ==
    IF t < end_time'
    THEN pc' = "drain_wait" /\ led_i' = 0 /\ UNCHANGED <<exc, mode>>
    ELSE EnterCleanup("none")

\* After message idx has been handled at time t: the next message, or the
\* end of the for loop and the start of the drain.
NextMessage(t) ==
    IF idx < Len(score)
    THEN /\ idx' = idx + 1
         /\ pc' = "pacing"
         /\ UNCHANGED <<end_time, led_i, exc, mode>>
    ELSE /\ idx' = idx
         /\ end_time' = t + MaxDuration(note_durations)
         /\ DrainTest(t)

\* ser.write(command) returns: the receiver gets the command.
Written(c) ==
    /\ sent' = Append(sent, c)
    /\ device' = SetLed(device, c.led, c.cmd = "ON")


(***************************************************************************)
(* Playing: one iteration of "for msg in mid", from the end of its pacing  *)
(* wait to the next suspension point.                                      *)
(***************************************************************************)
EvMsg == score[idx]
EvTime == current_time + EvMsg.time
EvKey == midi_to_piano_key(EvMsg.note)
EvIsNote == EvMsg.type \in {"note_on", "note_off"} /\ EvKey # None
EvLed == piano_key_to_led(EvKey)

\* (Mutant: the lookup has no fallback value.)
EvDuration_NoFallback == Get(note_durations, EvKey, 0)

\* duration = note_durations.get(key, 0.1)
EvDuration == Get(note_durations, EvKey, DefaultDuration)

\* (Mutant: a note-off ends every interval of its key.)
EvActive_OffClears ==
    IF IsNoteOn(EvMsg)
    THEN SetActive(note_active, EvKey,
                   Append(Active(note_active, EvKey), <<EvTime, EvDuration>>))
    ELSE IF IsNoteOff(EvMsg)
    THEN SetActive(note_active, EvKey, <<>>)
    ELSE note_active

\* note_active after the note_on / note_off branch of the iteration.
EvActive ==
    IF IsNoteOn(EvMsg)
    THEN SetActive(note_active, EvKey,
                   Append(Active(note_active, EvKey), <<EvTime, EvDuration>>))
    ELSE IF IsNoteOff(EvMsg)
    THEN SetActive(note_active, EvKey, Prune(Active(note_active, EvKey), EvTime))
    ELSE note_active

\* update_led(EvLed, EvTime) finds the led's state changed and writes.
EvWrites ==
    /\ EvIsNote
    /\ EvKey \in 1..NumPianoKeys
    /\ EvLed # None
    /\ NewState(EvActive, EvLed, EvTime) # (EvLed \in led_states)

EvCommand == Command(NewState(EvActive, EvLed, EvTime), EvLed, EvTime)

\* (Mutant: the iteration prunes the intervals of the keys of every led.)
EvEffects_PruneAll ==
    /\ note_active' = PruneLeds(EvActive, Leds, EvTime)
    /\ n_created' = IF IsNoteOn(EvMsg) THEN n_created + 1 ELSE n_created
    /\ created' = IF IsNoteOn(EvMsg)
                  THEN Append(created, [idx |-> idx, key |-> EvKey,
                                        duration |-> EvDuration])
                  ELSE created
    /\ observed' = IF IsNoteOn(EvMsg) THEN Append(observed, EvKey) ELSE observed

\* What the iteration does to the controller before any write.
EvEffects ==
    /\ note_active' = IF EvLed = None THEN EvActive
                      ELSE PruneLeds(EvActive, {EvLed}, EvTime)
    /\ n_created' = IF IsNoteOn(EvMsg) THEN n_created + 1 ELSE n_created
    /\ created' = IF IsNoteOn(EvMsg)
                  THEN Append(created, [idx |-> idx, key |-> EvKey,
                                        duration |-> EvDuration])
                  ELSE created
    /\ observed' = IF IsNoteOn(EvMsg) THEN Append(observed, EvKey) ELSE observed

ProcessEvent ==
    /\ pc = "pacing"
    /\ current_time' = EvTime
    /\ n_events' = n_events + 1
    /\ IF ~EvIsNote
       THEN /\ NextMessage(EvTime)
            /\ UNCHANGED <<note_active, n_created, created, observed, led_states, sent,
                           device, ret>>
       ELSE IF EvKey \notin 1..NumPianoKeys
       THEN \* self.note_active[key] raises KeyError
            /\ EnterCleanup("KeyError")
            /\ UNCHANGED <<note_active, n_created, created, observed, led_states, sent,
                           device, ret, idx, end_time>>
       ELSE IF ~EvWrites
       THEN /\ EvEffects
            /\ NextMessage(EvTime)
            /\ UNCHANGED <<led_states, sent, device, ret>>
       ELSE /\ EvEffects
            /\ led_states' = SetLed(led_states, EvLed, EvCommand.cmd = "ON")
            /\ Written(EvCommand)
            /\ pc' = "post_delay"
            /\ ret' = "play"
            /\ UNCHANGED <<idx, end_time, led_i, exc, mode>>
    /\ UNCHANGED <<config, lookups, first_run, tick_start, ser, own_ser, port_open, note_durations, result,
                   teardown_runs, cleanup_done, handled, led_at_cancel,
                   fail_kind, fail_at, acq_fault, sessions, faults>>

\* (Mutant: led_states is assigned after ser.write has returned.)
ProcessEventWriteFail_StateAfterWrite ==
    /\ pc = "pacing"
    /\ EvWrites
    /\ write_fails < budget.write_fails
    /\ write_fails' = write_fails + 1
    /\ current_time' = EvTime
    /\ n_events' = n_events + 1
    /\ EvEffects
    /\ fail_kind' = EvCommand.cmd
    /\ fail_at' = [led |-> EvLed, n_sent |-> Len(sent)]
    /\ EnterCleanup("WriteError")
    /\ UNCHANGED <<config, lookups, first_run, tick_start, ser, own_ser, port_open,
                   led_states, note_durations, end_time, idx, ret, result,
                   device, sent, teardown_runs, cleanup_done, handled,
                   led_at_cancel, acq_fault, sessions, cancels>>

\* The same iteration when ser.write raises: led_states is already set, the
\* exception leaves update_led and the for loop.
ProcessEventWriteFail ==
    /\ pc = "pacing"
    /\ EvWrites
    /\ write_fails < budget.write_fails
    /\ write_fails' = write_fails + 1
    /\ current_time' = EvTime
    /\ n_events' = n_events + 1
    /\ EvEffects
    /\ led_states' = SetLed(led_states, EvLed, EvCommand.cmd = "ON")
    /\ fail_kind' = EvCommand.cmd
    /\ fail_at' = [led |-> EvLed, n_sent |-> Len(sent)]
    /\ EnterCleanup("WriteError")
    /\ UNCHANGED acq_fault
    /\ UNCHANGED <<config, lookups, first_run, tick_start, ser, own_ser, port_open, note_durations, end_time, idx,
                   ret, result, device, sent, teardown_runs, cleanup_done,
                   handled, led_at_cancel, sessions, cancels>>

\* The same iteration when play_function(key) raises: the interval is already
\* appended, update_led is not reached.
ProcessEventCallbackRaise ==
    /\ pc = "pacing"
    /\ EvIsNote
    /\ EvKey \in 1..NumPianoKeys
    /\ IsNoteOn(EvMsg)
    /\ current_time' = EvTime
    /\ n_events' = n_events + 1
    /\ note_active' = EvActive
    /\ n_created' = n_created + 1
    /\ created' = Append(created, [idx |-> idx, key |-> EvKey,
                                   duration |-> EvDuration])
    /\ observed' = Append(observed, EvKey)
    /\ EnterCleanup("CallbackError")
    /\ UNCHANGED <<config, lookups, first_run, tick_start, ser, own_ser, port_open, led_states, note_durations,
                   end_time, idx, ret, result, device, sent, teardown_runs,
                   cleanup_done, handled, led_at_cancel, fail_kind, fail_at, acq_fault, sessions,
                   faults>>

\* mid = mido.MidiFile(...) inside the try: the file loads, the loop starts.
LoadMidi ==
    /\ pc = "load"
    /\ NextMessage(current_time)
    /\ UNCHANGED <<config, lookups, first_run, tick_start, ser, own_ser, port_open, note_active, led_states,
                   note_durations, current_time, ret, result, device, sent,
                   observed, n_created, created, n_events, teardown_runs, cleanup_done,
                   handled, led_at_cancel, fail_kind, fail_at, acq_fault, sessions, faults>>

\* mid = mido.MidiFile(...) inside the try raises.
LoadMidiFail ==
    /\ pc = "load"
    /\ EnterCleanup("LoadError")
    /\ UNCHANGED <<config, lookups, first_run, tick_start, ser, own_ser, port_open, note_active, led_states,
                   note_durations, current_time, end_time, idx, ret, result,
                   device, sent, observed, n_created, created, n_events, teardown_runs,
                   cleanup_done, handled, led_at_cancel, fail_kind, fail_at, acq_fault, sessions,
                   faults>>

\* The task is cancelled while it awaits asyncio.sleep(msg.time).
CancelPacing ==
    /\ pc = "pacing"
    /\ cancels < budget.cancels
    /\ cancels' = cancels + 1
    /\ led_at_cancel' = led_states
    /\ EnterCleanup("CancelledError")
    /\ UNCHANGED <<config, lookups, first_run, tick_start, ser, own_ser, port_open, note_active, led_states,
                   note_durations, current_time, end_time, idx, ret, result,
                   device, sent, observed, n_created, created, n_events, teardown_runs,
                   cleanup_done, handled, fail_kind, fail_at, acq_fault, sessions, write_fails>>


(***************************************************************************)
(* Draining: "while current_time < end_time", one tick and then            *)
(* update_led for every led of range(num_leds).                            *)
(***************************************************************************)
\* The channels with a key that has an Active Interval not yet expired at t.
LiveLeds(t) ==
    { piano_key_to_led(k) :
        k \in { x \in DOMAIN note_active :
                  /\ piano_key_to_led(x) # None
                  /\ \E n \in 1..Len(note_active[x]) : Live(note_active[x][n], t) } }

\* (Mutant: the scan only visits the leds whose key still has an interval
\* that has not expired.)
ChangingLeds_LiveOnly(t) ==
    { j \in LiveLeds(t) :
        /\ j >= led_i
        /\ NewState(note_active, j, t) # (j \in led_states) }

\* The leds from led_i on whose update_led call changes led_states.  Only a
\* led that is tracked on, or has a key with an interval, can change.
ChangingLeds(t) ==
    { j \in led_states \cup { piano_key_to_led(k) : k \in DOMAIN note_active } :
        /\ j # None
        /\ j >= led_i
        /\ NewState(note_active, j, t) # (j \in led_states) }

\* await asyncio.sleep(0.05) returns; current_time += 0.05.
DrainTickElapsed ==
    /\ pc = "drain_wait"
    /\ current_time' = current_time + DrainTick
    /\ pc' = "drain_scan"
    /\ led_i' = 0
    /\ tick_start' = [leds |-> led_states, n_sent |-> Len(sent)]
    /\ UNCHANGED <<config, lookups, first_run, ser, own_ser, port_open, note_active, led_states,
                   note_durations, end_time, idx, ret, exc, mode, result, device,
                   sent, observed, n_created, created, n_events, teardown_runs,
                   cleanup_done, handled, led_at_cancel, fail_kind, fail_at, acq_fault, sessions,
                   faults>>

\* The for loop over the leds, up to its next write or to its end.
DrainScan ==
    /\ pc = "drain_scan"
    /\ LET ch == ChangingLeds(current_time) IN
       IF ch = {}
       THEN /\ note_active' = PruneLeds(note_active, led_i..(num_leds - 1),
                                        current_time)
            /\ UNCHANGED end_time
            /\ DrainTest(current_time)
            /\ UNCHANGED <<led_states, sent, device, ret>>
       ELSE LET j == MinOf(ch)
                c == Command(j \notin led_states, j, current_time) IN
            /\ note_active' = PruneLeds(note_active, led_i..j, current_time)
            /\ led_states' = SetLed(led_states, j, j \notin led_states)
            /\ Written(c)
            /\ pc' = "post_delay"
            /\ ret' = "drain"
            /\ led_i' = j + 1
            /\ UNCHANGED <<end_time, exc, mode>>
    /\ UNCHANGED <<config, lookups, first_run, tick_start, ser, own_ser, port_open, note_durations, current_time,
                   idx, result, observed, n_created, created, n_events, teardown_runs,
                   cleanup_done, handled, led_at_cancel, fail_kind, fail_at, acq_fault, sessions,
                   faults>>

\* The for loop when the write of its next command raises.
DrainScanWriteFail ==
    /\ pc = "drain_scan"
    /\ write_fails < budget.write_fails
    /\ ChangingLeds(current_time) # {}
    /\ LET j == MinOf(ChangingLeds(current_time)) IN
            /\ note_active' = PruneLeds(note_active, led_i..j, current_time)
            /\ led_states' = SetLed(led_states, j, j \notin led_states)
            /\ fail_kind' = IF j \in led_states THEN "OFF" ELSE "ON"
            /\ fail_at' = [led |-> j, n_sent |-> Len(sent)]
    /\ write_fails' = write_fails + 1
    /\ EnterCleanup("WriteError")
    /\ UNCHANGED acq_fault
    /\ UNCHANGED <<config, lookups, first_run, tick_start, ser, own_ser, port_open, note_durations, current_time,
                   end_time, idx, ret, result, device, sent, observed, n_created, created,
                   n_events, teardown_runs, cleanup_done, handled, led_at_cancel,
                   sessions, cancels>>

\* The task is cancelled while it awaits asyncio.sleep(0.05).
CancelDrainWait ==
    /\ pc = "drain_wait"
    /\ cancels < budget.cancels
    /\ cancels' = cancels + 1
    /\ led_at_cancel' = led_states
    /\ EnterCleanup("CancelledError")
    /\ UNCHANGED <<config, lookups, first_run, tick_start, ser, own_ser, port_open, note_active, led_states,
                   note_durations, current_time, end_time, idx, ret, result,
                   device, sent, observed, n_created, created, n_events, teardown_runs,
                   cleanup_done, handled, fail_kind, fail_at, acq_fault, sessions, write_fails>>

(***************************************************************************)
(* The post-command delay, await asyncio.sleep(0.01), of update_led and of *)
(* cleanup.                                                                *)
(***************************************************************************)
PostDelay ==
    /\ pc = "post_delay"
    /\ CASE ret = "play" -> NextMessage(current_time)
         [] ret = "drain" -> pc' = "drain_scan" /\ UNCHANGED <<idx, end_time, led_i, exc, mode>>
         [] ret = "cleanup" -> pc' = "cleanup" /\ UNCHANGED <<idx, end_time, led_i, exc, mode>>
    /\ UNCHANGED <<config, lookups, first_run, tick_start, ser, own_ser, port_open, note_active, led_states,
                   note_durations, current_time, ret, result, device, sent,
                   observed, n_created, created, n_events, teardown_runs, cleanup_done,
                   handled, led_at_cancel, fail_kind, fail_at, acq_fault, sessions, faults>>

\* The task is cancelled during the delay.  In update_led the CancelledError
\* reaches play_midi's finally clause; in cleanup it leaves cleanup.
CancelPostDelay ==
    /\ pc = "post_delay"
    /\ cancels < budget.cancels
    /\ cancels' = cancels + 1
    /\ led_at_cancel' = led_states
    /\ IF ret = "cleanup"
       THEN /\ pc' = "done"
            /\ result' = IF mode = "finally" THEN "CancelledError" ELSE result
            /\ UNCHANGED <<exc, mode, led_i>>
       ELSE /\ EnterCleanup("CancelledError")
            /\ UNCHANGED result
    /\ UNCHANGED <<config, lookups, first_run, tick_start, ser, own_ser, port_open, note_active, led_states,
                   note_durations, current_time, end_time, idx, ret, device, sent,
                   observed, n_created, created, n_events, teardown_runs, cleanup_done,
                   handled, fail_kind, fail_at, acq_fault, sessions, write_fails>>

(***************************************************************************)
(* cleanup(): run by play_midi's finally clause, and by the error handler  *)
(* of the caller (__main__).                                               *)
(***************************************************************************)
CleanupGuard == ser # None /\ port_open

\* (Mutant: cleanup closes the transport whoever owns it.)
ClosesTransport_Always == TRUE

\* if self.own_ser:
ClosesTransport == own_ser

LitLeds == { i \in led_states : i >= led_i }

\* cleanup returns.
Finished ==
    /\ pc' = "done"
    /\ cleanup_done' = TRUE
    /\ result' = IF mode = "finally"
                 THEN (IF exc = "none" THEN "returned" ELSE exc)
                 ELSE result

\* cleanup up to its next write, or to its end.
Cleanup ==
    /\ pc = "cleanup"
    /\ IF ~CleanupGuard
       THEN /\ Finished
            /\ UNCHANGED <<ser, port_open, sent, device, ret, led_i,
                           teardown_runs>>
       ELSE /\ teardown_runs' = IF led_i = 0 THEN teardown_runs + 1
                                ELSE teardown_runs
            /\ IF LitLeds = {}
               THEN /\ Finished
                    /\ ser' = IF ClosesTransport THEN None ELSE ser
                    /\ port_open' = IF ClosesTransport THEN FALSE ELSE port_open
                    /\ UNCHANGED <<sent, device, ret, led_i>>
               ELSE /\ Written(Command(FALSE, MinOf(LitLeds), current_time))
                    /\ pc' = "post_delay"
                    /\ ret' = "cleanup"
                    /\ led_i' = MinOf(LitLeds) + 1
                    /\ UNCHANGED <<ser, port_open, result, cleanup_done>>
    /\ UNCHANGED <<config, lookups, first_run, tick_start, own_ser, note_active, led_states, note_durations,
                   current_time, end_time, idx, exc, mode, observed, n_created, created,
                   n_events, handled, led_at_cancel, fail_kind, fail_at, acq_fault, sessions, faults>>

\* cleanup when the write of its next OFF raises: the exception leaves cleanup.
CleanupWriteFail ==
    /\ pc = "cleanup"
    /\ CleanupGuard
    /\ LitLeds # {}
    /\ write_fails < budget.write_fails
    /\ write_fails' = write_fails + 1
    /\ teardown_runs' = IF led_i = 0 THEN teardown_runs + 1 ELSE teardown_runs
    /\ pc' = "done"
    /\ result' = IF mode = "finally" THEN "WriteError" ELSE result
    /\ UNCHANGED <<config, lookups, first_run, tick_start, ser, own_ser, port_open, note_active, led_states,
                   note_durations, current_time, end_time, idx, led_i, ret, exc,
                   mode, device, sent, observed, n_created, created, n_events,
                   cleanup_done, handled, led_at_cancel, fail_kind, fail_at, acq_fault, sessions,
                   cancels>>

\* except Exception: asyncio.run(controller.cleanup())
HandlerCleanup ==
    /\ pc = "done"
    /\ result \in {"SerialOpenError", "LoadError", "WriteError", "CallbackError",
                   "KeyError"}
    /\ ~handled
    /\ handled' = TRUE
    /\ pc' = "cleanup"
    /\ mode' = "handler"
    /\ led_i' = 0
    /\ UNCHANGED <<config, lookups, first_run, tick_start, ser, own_ser, port_open, note_active, led_states,
                   note_durations, current_time, end_time, idx, ret, exc, result,
                   device, sent, observed, n_created, created, n_events, teardown_runs,
                   cleanup_done, led_at_cancel, fail_kind, fail_at, acq_fault, sessions, faults>>

Next ==
    \/ PlayMidi
    \/ InitializeSerial
    \/ InitializeSerialFail
    \/ ParseMidiDurations
    \/ ParseMidiDurationsFail
    \/ LoadMidi
    \/ LoadMidiFail
    \/ ProcessEvent
    \/ ProcessEventWriteFail
    \/ ProcessEventCallbackRaise
    \/ CancelPacing
    \/ DrainTickElapsed
    \/ DrainScan
    \/ DrainScanWriteFail
    \/ CancelDrainWait
    \/ PostDelay
    \/ CancelPostDelay
    \/ Cleanup
    \/ CleanupWriteFail
    \/ HandlerCleanup

Spec == Init /\ [][Next]_vars


(***************************************************************************)
(* The pre-pass on its own: parse_midi_durations applied to every timeline *)
(* of at most MaxParseEvents messages over ParseMessages, which hold two   *)
(* pitches in range, one below the range and a message that is no note.    *)
(***************************************************************************)
MaxParseEvents == 4

ParseMessages ==
    { Msg("note_on", 21, 64, 1), Msg("note_off", 21, 0, 2),
      Msg("note_off", 21, 0, 3), Msg("note_on", 22, 64, 0),
      Msg("note_on", 22, 0, 1), Msg("note_on", 20, 64, 1),
      Msg("control_change", 0, 0, 2) }

ParseScores == UNION { [1..n -> ParseMessages] : n \in 0..MaxParseEvents }

\* play_midi has been called with a supplied transport and is about to call
\* parse_midi_durations.
InitParse ==
    /\ \E c \in Configs :
          /\ num_leds = c.num_leds
          /\ min_midi_note = c.min_midi_note
          /\ max_midi_note = c.max_midi_note
    /\ score \in ParseScores
    /\ budget = [sessions |-> 1, write_fails |-> 0, cancels |-> 0]
    /\ ser = Ref /\ own_ser = FALSE /\ port_open = TRUE
    /\ note_active = EmptyDict /\ led_states = {} /\ device = {}
    /\ note_durations = EmptyDict
    /\ current_time = 0 /\ end_time = 0 /\ idx = 0 /\ led_i = 0
    /\ pc = "parse"
    /\ ret = "none" /\ exc = "none" /\ mode = "none" /\ result = "none"
    /\ sent = <<>> /\ observed = <<>> /\ n_created = 0 /\ n_events = 0
    /\ created = <<>>
    /\ teardown_runs = 0 /\ cleanup_done = FALSE /\ handled = FALSE
    /\ led_at_cancel = {} /\ fail_kind = "none" /\ fail_at = NoFailure /\ acq_fault = "none"
    /\ sessions = 1 /\ write_fails = 0 /\ cancels = 0
    /\ lookups = <<>>
    /\ tick_start = [leds |-> {}, n_sent |-> 0]
    /\ first_run = NoRun

NextParse == ParseMidiDurations

SpecParse == InitParse /\ [][NextParse]_vars


(***************************************************************************)
(* The two lookup methods on their own: a caller asks for the channel of   *)
(* one pitch and then of another, on controllers constructed with several  *)
(* strips and pitch ranges.  mido's notes are the integers 0..127.         *)
(***************************************************************************)
MidiNotes == 0..127

LookupConfigs ==
    [num_leds : {2, DefaultNumLeds, 150},
     min_midi_note : {0, DefaultMinMidiNote, 22},
     max_midi_note : {DefaultMaxMidiNote, 127}]

InitLookup ==
    /\ \E c \in LookupConfigs :
          /\ num_leds = c.num_leds
          /\ min_midi_note = c.min_midi_note
          /\ max_midi_note = c.max_midi_note
    /\ score = <<>>
    /\ budget = [sessions |-> 0, write_fails |-> 0, cancels |-> 0]
    /\ ser = Ref /\ own_ser = FALSE /\ port_open = TRUE
    /\ note_active = EmptyDict /\ led_states = {} /\ device = {}
    /\ note_durations = EmptyDict
    /\ current_time = 0 /\ end_time = 0 /\ idx = 0 /\ led_i = 0
    /\ pc = "idle"
    /\ ret = "none" /\ exc = "none" /\ mode = "none" /\ result = "none"
    /\ sent = <<>> /\ observed = <<>> /\ n_created = 0 /\ n_events = 0
    /\ created = <<>>
    /\ teardown_runs = 0 /\ cleanup_done = FALSE /\ handled = FALSE
    /\ led_at_cancel = {} /\ fail_kind = "none" /\ fail_at = NoFailure /\ acq_fault = "none"
    /\ sessions = 0 /\ write_fails = 0 /\ cancels = 0
    /\ lookups = <<>>
    /\ tick_start = [leds |-> {}, n_sent |-> 0]
    /\ first_run = NoRun

\* self.piano_key_to_led(self.midi_to_piano_key(pitch))
Lookup ==
    /\ Len(lookups) < 2
    /\ \E p \in MidiNotes :
          lookups' = Append(lookups,
                            [pitch |-> p,
                             led |-> piano_key_to_led(midi_to_piano_key(p))])
    /\ UNCHANGED <<config, first_run, tick_start, ser, own_ser, port_open, note_active, led_states,
                   note_durations, current_time, end_time, idx, led_i, pc, ret,
                   exc, mode, result, device, sent, observed, n_created, created,
                   n_events, teardown_runs, cleanup_done, handled, led_at_cancel,
                   fail_kind, fail_at, acq_fault, sessions, faults>>

NextLookup == Lookup

SpecLookup == InitLookup /\ [][NextLookup]_vars


(***************************************************************************)
(* The session of a new controller in an environment that never fails:    *)
(* every write succeeds, the file loads, the port opens, play_function     *)
(* returns and the task is not cancelled.  The timelines are wider than    *)
(* those of Spec: they hold a pitch below the range (20), a pitch in range *)
(* whose key has no led (94, key 74), a pitch that is in range only when   *)
(* max_midi_note is raised                                                 *)
(* (109, key 89), a message that is no note, and a note-off 0.5 s (20      *)
(* units) after the previous message.  The controller is constructed with  *)
(* the defaults, with a raised max_midi_note, with a strip of 2 leds or    *)
(* with a raised min_midi_note.                                            *)
(***************************************************************************)
MaxPlainEvents == 3

PlainMessages ==
    { Msg("note_on", 21, 64, 0), Msg("note_off", 21, 0, 20),
      Msg("note_on", 22, 64, 5), Msg("note_off", 22, 0, 1),
      Msg("note_on", 22, 0, 1), Msg("note_on", 20, 64, 1),
      Msg("note_on", 94, 64, 0), Msg("note_on", 109, 64, 1),
      Msg("note_off", 109, 0, 1), Msg("control_change", 0, 0, 2) }

PlainScores == UNION { [1..n -> PlainMessages] : n \in 0..MaxPlainEvents }

PlainConfigs ==
    Configs \cup
    { [num_leds |-> DefaultNumLeds, min_midi_note |-> DefaultMinMidiNote,
       max_midi_note |-> 127],
      [num_leds |-> 2, min_midi_note |-> DefaultMinMidiNote,
       max_midi_note |-> DefaultMaxMidiNote],
      [num_leds |-> DefaultNumLeds, min_midi_note |-> 22,
       max_midi_note |-> DefaultMaxMidiNote] }

InitPlain ==
    /\ \E c \in PlainConfigs :
          /\ num_leds = c.num_leds
          /\ min_midi_note = c.min_midi_note
          /\ max_midi_note = c.max_midi_note
    /\ score \in PlainScores
    /\ budget = [sessions |-> 1, write_fails |-> 0, cancels |-> 0]
    /\ \E borrowed \in BOOLEAN :
          /\ ser = IF borrowed THEN Ref ELSE None
          /\ own_ser = ~borrowed
          /\ port_open = borrowed
    /\ note_active = EmptyDict /\ led_states = {} /\ device = {}
    /\ note_durations = EmptyDict
    /\ current_time = 0 /\ end_time = 0 /\ idx = 0 /\ led_i = 0
    /\ pc = "idle"
    /\ ret = "none" /\ exc = "none" /\ mode = "none" /\ result = "none"
    /\ sent = <<>> /\ observed = <<>> /\ n_created = 0 /\ n_events = 0
    /\ created = <<>>
    /\ teardown_runs = 0 /\ cleanup_done = FALSE /\ handled = FALSE
    /\ led_at_cancel = {} /\ fail_kind = "none" /\ fail_at = NoFailure /\ acq_fault = "none"
    /\ sessions = 0 /\ write_fails = 0 /\ cancels = 0
    /\ lookups = <<>>
    /\ tick_start = [leds |-> {}, n_sent |-> 0]
    /\ first_run = NoRun

NextPlain ==
    \/ PlayMidi
    \/ InitializeSerial
    \/ ParseMidiDurations
    \/ LoadMidi
    \/ ProcessEvent
    \/ DrainTickElapsed
    \/ DrainScan
    \/ PostDelay
    \/ Cleanup
    \/ HandlerCleanup

SpecPlain == InitPlain /\ [][NextPlain]_vars

\* The steps the running task takes by itself: the event loop resumes the
\* one task whenever its sleep has elapsed, and every other step of
\* play_midi and cleanup is straight-line code.
SessionSteps ==
    \/ InitializeSerial
    \/ ParseMidiDurations
    \/ LoadMidi
    \/ ProcessEvent
    \/ DrainTickElapsed
    \/ DrainScan
    \/ PostDelay
    \/ Cleanup

\* The fault-free session whose task is always resumed.  Whether play_midi
\* is called, and whether the caller's handler runs, stays up to the caller.
SpecPlainFair == SpecPlain /\ WF_vars(SessionSteps)


(***************************************************************************)
(* The fault-free session of a new controller with the default             *)
(* configuration, on longer timelines over few messages: a pitch can be    *)
(* played and closed twice, with different durations, and a note can be    *)
(* closed at the very time it began.                                       *)
(***************************************************************************)
MaxReplayEvents == 4

ReplayMessages ==
    { Msg("note_on", 22, 64, 5), Msg("note_off", 22, 0, 1),
      Msg("note_on", 22, 0, 3), Msg("note_on", 21, 64, 0),
      Msg("note_off", 21, 0, 5), Msg("note_off", 21, 0, 0) }

ReplayScores == UNION { [1..n -> ReplayMessages] : n \in 0..MaxReplayEvents }

InitReplay ==
    /\ \E c \in Configs :
          /\ num_leds = c.num_leds
          /\ min_midi_note = c.min_midi_note
          /\ max_midi_note = c.max_midi_note
    /\ score \in ReplayScores
    /\ budget = [sessions |-> 1, write_fails |-> 0, cancels |-> 0]
    /\ \E borrowed \in BOOLEAN :
          /\ ser = IF borrowed THEN Ref ELSE None
          /\ own_ser = ~borrowed
          /\ port_open = borrowed
    /\ note_active = EmptyDict /\ led_states = {} /\ device = {}
    /\ note_durations = EmptyDict
    /\ current_time = 0 /\ end_time = 0 /\ idx = 0 /\ led_i = 0
    /\ pc = "idle"
    /\ ret = "none" /\ exc = "none" /\ mode = "none" /\ result = "none"
    /\ sent = <<>> /\ observed = <<>> /\ n_created = 0 /\ n_events = 0
    /\ created = <<>>
    /\ teardown_runs = 0 /\ cleanup_done = FALSE /\ handled = FALSE
    /\ led_at_cancel = {} /\ fail_kind = "none" /\ fail_at = NoFailure /\ acq_fault = "none"
    /\ sessions = 0 /\ write_fails = 0 /\ cancels = 0
    /\ lookups = <<>>
    /\ tick_start = [leds |-> {}, n_sent |-> 0]
    /\ first_run = NoRun

NextReplay ==
    \/ PlayMidi
    \/ InitializeSerial
    \/ ParseMidiDurations
    \/ LoadMidi
    \/ ProcessEvent
    \/ DrainTickElapsed
    \/ DrainScan
    \/ PostDelay
    \/ Cleanup

SpecReplay == InitReplay /\ [][NextReplay]_vars


(***************************************************************************)
(* Two controllers, one after the other: the first plays a timeline in an  *)
(* environment that never fails; then a new controller is constructed for  *)
(* the same timeline with some of its note_off messages turned into        *)
(* note_on messages of velocity 0, and plays it.  mido's note_off carries  *)
(* a release velocity, 64 unless the file says otherwise.                  *)
(***************************************************************************)
MaxTwinEvents == 3

TwinMessages ==
    { Msg("note_on", 21, 64, 0), Msg("note_off", 21, 64, 5),
      Msg("note_on", 22, 64, 5), Msg("note_off", 22, 0, 1),
      Msg("note_off", 22, 0, 3) }

TwinScores == UNION { [1..n -> TwinMessages] : n \in 0..MaxTwinEvents }

InitTwin ==
    /\ \E c \in Configs :
          /\ num_leds = c.num_leds
          /\ min_midi_note = c.min_midi_note
          /\ max_midi_note = c.max_midi_note
    /\ score \in TwinScores
    /\ budget = [sessions |-> 1, write_fails |-> 0, cancels |-> 0]
    /\ \E borrowed \in BOOLEAN :
          /\ ser = IF borrowed THEN Ref ELSE None
          /\ own_ser = ~borrowed
          /\ port_open = borrowed
    /\ note_active = EmptyDict /\ led_states = {} /\ device = {}
    /\ note_durations = EmptyDict
    /\ current_time = 0 /\ end_time = 0 /\ idx = 0 /\ led_i = 0
    /\ pc = "idle"
    /\ ret = "none" /\ exc = "none" /\ mode = "none" /\ result = "none"
    /\ sent = <<>> /\ observed = <<>> /\ n_created = 0 /\ n_events = 0
    /\ created = <<>>
    /\ teardown_runs = 0 /\ cleanup_done = FALSE /\ handled = FALSE
    /\ led_at_cancel = {} /\ fail_kind = "none" /\ fail_at = NoFailure /\ acq_fault = "none"
    /\ sessions = 0 /\ write_fails = 0 /\ cancels = 0
    /\ lookups = <<>>
    /\ tick_start = [leds |-> {}, n_sent |-> 0]
    /\ first_run = NoRun

\* The message as a note_on of velocity 0.
ZeroVelocity(m) == Msg("note_on", m.note, 0, m.time)

NoteOffPositions(s) == { i \in 1..Len(s) : s[i].type = "note_off" }

\* The timeline with the messages at the positions of S replaced.
Replaced(s, S) ==
    [i \in 1..Len(s) |-> IF i \in S THEN ZeroVelocity(s[i]) ELSE s[i]]

\* MidiToLedController(...) is constructed anew, with the same arguments but
\* a file whose timeline has some note_off messages replaced; what the
\* first controller did is kept for comparison.
Reconstruct ==
    /\ pc = "done" /\ result = "returned"
    /\ ~first_run.ended
    /\ \E S \in SUBSET NoteOffPositions(score) :
          /\ S # {}
          /\ score' = Replaced(score, S)
    /\ first_run' = [score |-> score, table |-> note_durations,
                     observed |-> observed, sent |-> sent, ended |-> TRUE]
    /\ ser' = IF own_ser THEN None ELSE Ref
    /\ port_open' = ~own_ser
    /\ note_active' = EmptyDict /\ led_states' = {}
    /\ note_durations' = EmptyDict
    /\ current_time' = 0 /\ end_time' = 0 /\ idx' = 0 /\ led_i' = 0
    /\ pc' = "idle"
    /\ ret' = "none" /\ exc' = "none" /\ mode' = "none" /\ result' = "none"
    /\ sent' = <<>> /\ observed' = <<>> /\ n_created' = 0 /\ n_events' = 0
    /\ created' = <<>>
    /\ teardown_runs' = 0 /\ cleanup_done' = FALSE /\ handled' = FALSE
    /\ led_at_cancel' = {} /\ fail_kind' = "none" /\ fail_at' = NoFailure
    /\ acq_fault' = "none"
    /\ sessions' = 0
    /\ tick_start' = [leds |-> {}, n_sent |-> 0]
    /\ UNCHANGED <<num_leds, min_midi_note, max_midi_note, budget, own_ser,
                   device, faults, lookups>>

NextTwin ==
    \/ PlayMidi
    \/ InitializeSerial
    \/ ParseMidiDurations
    \/ LoadMidi
    \/ ProcessEvent
    \/ DrainTickElapsed
    \/ DrainScan
    \/ PostDelay
    \/ Cleanup
    \/ Reconstruct

SpecTwin == InitTwin /\ [][NextTwin]_vars


(***************************************************************************)
(* play_midi called again on the same controller, in an environment that   *)
(* never fails: the timeline is that of the same file.                     *)
(***************************************************************************)
MaxAgainEvents == 2
MaxAgainSessions == 2

AgainScores == UNION { [1..n -> Messages] : n \in 0..MaxAgainEvents }

InitAgain ==
    /\ \E c \in Configs :
          /\ num_leds = c.num_leds
          /\ min_midi_note = c.min_midi_note
          /\ max_midi_note = c.max_midi_note
    /\ score \in AgainScores
    /\ budget = [sessions |-> MaxAgainSessions, write_fails |-> 0, cancels |-> 0]
    /\ \E borrowed \in BOOLEAN :
          /\ ser = IF borrowed THEN Ref ELSE None
          /\ own_ser = ~borrowed
          /\ port_open = borrowed
    /\ note_active = EmptyDict /\ led_states = {} /\ device = {}
    /\ note_durations = EmptyDict
    /\ current_time = 0 /\ end_time = 0 /\ idx = 0 /\ led_i = 0
    /\ pc = "idle"
    /\ ret = "none" /\ exc = "none" /\ mode = "none" /\ result = "none"
    /\ sent = <<>> /\ observed = <<>> /\ n_created = 0 /\ n_events = 0
    /\ created = <<>>
    /\ teardown_runs = 0 /\ cleanup_done = FALSE /\ handled = FALSE
    /\ led_at_cancel = {} /\ fail_kind = "none" /\ fail_at = NoFailure /\ acq_fault = "none"
    /\ sessions = 0 /\ write_fails = 0 /\ cancels = 0
    /\ lookups = <<>>
    /\ tick_start = [leds |-> {}, n_sent |-> 0]
    /\ first_run = NoRun

NextAgain ==
    \/ PlayMidi
    \/ InitializeSerial
    \/ ParseMidiDurations
    \/ LoadMidi
    \/ ProcessEvent
    \/ DrainTickElapsed
    \/ DrainScan
    \/ PostDelay
    \/ Cleanup

SpecAgain == InitAgain /\ [][NextAgain]_vars


(***************************************************************************)
(* Phases of a session and what the claims speak of.                       *)
(***************************************************************************)
OnLeds == led_states

\* A timeline event or a drain tick has just been processed completely.
CheckedInstant ==
    \/ pc = "pacing" /\ n_events > 0
    \/ pc = "post_delay" /\ ret = "play"
    \/ pc = "drain_wait"

\* C1: at every checked instant of Playing and Draining, a channel is
\* tracked on exactly when a key mapped to it has an Active Interval with
\* current_time < start + duration.
C1_StateConsistency ==
    CheckedInstant => OnLeds = LiveLeds(current_time)


\* The commands of this session written for channel c, in order.
CommandsOf(c) == SelectSeq(sent, LAMBDA m : m.led = c)

SentLeds == { sent[n].led : n \in 1..Len(sent) }

LastCommand(c) == CommandsOf(c)[Len(CommandsOf(c))].cmd

\* play_midi has ended and cleanup ran to its end: the session is Closed.
Closed == pc = "done" /\ cleanup_done

\* play_midi has ended after the transport was acquired.
EndedAfterAcquisition == pc = "done" /\ result # "SerialOpenError"

\* C2: the commands written for one channel in a session strictly alternate
\* ON, OFF, ON, ..., starting with ON.
C2_EdgeTriggered ==
    \A c \in SentLeds :
        \A n \in 1..Len(CommandsOf(c)) :
            CommandsOf(c)[n].cmd = IF n % 2 = 1 THEN "ON" ELSE "OFF"

\* C3: once the session is Closed, the last command written for every
\* channel that got a command is OFF.
C3_LastCommandOff ==
    Closed => \A c \in SentLeds : LastCommand(c) = "OFF"

\* C4: once teardown has completed, no LED of the device is lit.
C4_DeviceDark ==
    Closed => device = {}

\* C5: when play_midi has ended in a session that acquired a transport,
\* the teardown has been executed exactly once.
C5_TeardownOnce ==
    EndedAfterAcquisition => teardown_runs = 1

\* Nothing went wrong in this run of the controller but a cancellation.
OnlyCancelled ==
    write_fails = 0 /\ exc \in {"none", "CancelledError"} /\ sessions = 1

\* C6: when play_midi has ended by a cancellation, an OFF was written for
\* every channel that was tracked on and a core-owned transport is closed.
C6_CancelTearsDown ==
    (pc = "done" /\ result = "CancelledError" /\ OnlyCancelled) =>
        /\ \A c \in led_at_cancel : c \in SentLeds /\ LastCommand(c) = "OFF"
        /\ own_ser => ~port_open

\* C8: a write that fails in update_led does not make play_midi raise: the
\* session ends by returning, with every timeline event processed.
C8_WriteFailureConfined ==
    (pc = "done" /\ mode = "finally" /\ fail_kind # "none" /\ cancels = 0) =>
        result = "returned" /\ n_events = Len(score)


\* C7: a borrowed transport is never closed by the controller; a transport
\* the controller opened is closed once teardown has completed.
C7_TransportOwnership ==
    /\ ~own_ser => (ser = Ref /\ port_open)
    /\ (own_ser /\ Closed) => (ser = None /\ ~port_open)

C7_Witness ==
    own_ser /\ Closed /\ teardown_runs = 1 /\ sent # <<>> /\ ~port_open

\* C9: when opening the transport fails, play_midi raises before Playing:
\* no event is processed, no Active Interval is created, the observer is
\* not invoked and no command is written.
C9_OpenFailureAborts ==
    acq_fault = "open" =>
        /\ pc \in {"done", "cleanup"}
        /\ result = "SerialOpenError"
        /\ n_events = 0 /\ n_created = 0 /\ observed = <<>> /\ sent = <<>>

C9_Witness ==
    acq_fault = "open" /\ pc = "done" /\ score # <<>>

\* C10: when the score cannot be loaded in the pre-pass, play_midi raises
\* before any playback: no Active Interval is created, the observer is not
\* invoked and no command is written.
C10_LoadFailureAborts ==
    (acq_fault = "load" /\ ~handled) =>
        /\ pc = "done"
        /\ result = "LoadError"
        /\ n_events = 0 /\ n_created = 0 /\ observed = <<>> /\ sent = <<>>

C10_Witness ==
    acq_fault = "load" /\ pc = "done" /\ ~handled /\ score # <<>>

\* play_midi has raised a score load error to its caller, whose handler has
\* not run yet.
LoadErrorReported == pc = "done" /\ result = "LoadError" /\ ~handled

\* C11: when a score load error is reported to the caller, the controller
\* has opened no transport: none that it owns is open.
C11_LoadErrorOpensNothing ==
    LoadErrorReported => ~(own_ser /\ port_open)


(***************************************************************************)
(* Timelines, as the claims about the pre-pass speak of them.              *)
(***************************************************************************)
\* The time of message i: the sum of the offsets up to it.
RECURSIVE CumTime(_, _)
CumTime(s, i) == IF i = 0 THEN 0 ELSE CumTime(s, i - 1) + s[i].time

InRange(p) == min_midi_note <= p /\ p <= max_midi_note

NoteOn(m) == m.type = "note_on" /\ m.velocity > 0

NoteOff(m) == m.type = "note_off" \/ (m.type = "note_on" /\ m.velocity = 0)

\* The positions of the note-ons and note-offs of pitch p.
EventsOf(s, p) == { i \in 1..Len(s) : (NoteOn(s[i]) \/ NoteOff(s[i])) /\ s[i].note = p }

PitchesOf(s) == { s[i].note : i \in { j \in 1..Len(s) : NoteOn(s[j]) \/ NoteOff(s[j]) } }

Rank(E, i) == Cardinality({ j \in E : j <= i })

\* The events of every pitch in range are on, off, on, off, ..., off.
WellPaired(s) ==
    \A p \in { q \in PitchesOf(s) : InRange(q) } :
        /\ Cardinality(EventsOf(s, p)) % 2 = 0
        /\ \A i \in EventsOf(s, p) :
              IF Rank(EventsOf(s, p), i) % 2 = 1 THEN NoteOn(s[i]) ELSE NoteOff(s[i])

\* off_time - on_time of the most recently closed note of pitch p.
LastClosedDuration(s, p) ==
    LET off == MaxOf(EventsOf(s, p))
        on == MaxOf(EventsOf(s, p) \ {off})
    IN  CumTime(s, off) - CumTime(s, on)

\* C12: for a well-paired timeline, the table parse_midi_durations returns
\* holds, for every pitch in range that the timeline plays, off_time -
\* on_time of that pitch's most recently closed note.
C12_DurationRoundTrip ==
    (pc = "load" /\ WellPaired(score)) =>
        \A p \in { q \in PitchesOf(score) : InRange(q) } :
            /\ (p - min_midi_note + 1) \in DOMAIN note_durations
            /\ note_durations[p - min_midi_note + 1] = LastClosedDuration(score, p)

\* A pitch is played twice, with different durations.
C12_Witness ==
    /\ pc = "load" /\ WellPaired(score)
    /\ Cardinality(EventsOf(score, 21)) = 4
    /\ score[2] # score[4]
    /\ note_durations[1] = LastClosedDuration(score, 21)


\* Message i is a note-on that no later note-off of its pitch closes.
NeverClosed(s, i) ==
    /\ NoteOn(s[i])
    /\ ~\E j \in (i + 1)..Len(s) : NoteOff(s[j]) /\ s[j].note = s[i].note

\* No note-on of pitch p is followed by a note-off of p anywhere in s.
PitchNeverClosed(s, p) ==
    ~\E i, j \in 1..Len(s) :
        i < j /\ NoteOn(s[i]) /\ s[i].note = p /\ NoteOff(s[j]) /\ s[j].note = p

\* C13 as stated: the Active Interval of every note-on that no later note-off
\* of its pitch closes has the default duration, which is positive.
C13_UnclosedNoteDefault ==
    \A n \in 1..Len(created) :
        NeverClosed(score, created[n].idx) =>
            created[n].duration = DefaultDuration /\ created[n].duration > 0

\* C13 amended: the Active Interval of every note-on of a pitch that the
\* timeline never closes (no note-on of it is followed by a note-off of it)
\* has the default duration, which is positive.
C13_UnclosedPitchDefault ==
    \A n \in 1..Len(created) :
        PitchNeverClosed(score, score[created[n].idx].note) =>
            created[n].duration = DefaultDuration /\ created[n].duration > 0

\* A never-closed pitch is played in a score that closes another pitch.
C13_Witness ==
    /\ note_durations # EmptyDict
    /\ \E n \in 1..Len(created) :
          /\ PitchNeverClosed(score, score[created[n].idx].note)
          /\ created[n].duration = DefaultDuration


(***************************************************************************)
(* The single-note scenario.                                               *)
(***************************************************************************)
Scenario14 == << Msg("note_on", 21, 64, 0), Msg("note_off", 21, 0, 20) >>

Expected14 == << [cmd |-> "ON", led |-> 0, time |-> 0],
                 [cmd |-> "OFF", led |-> 0, time |-> 20] >>

IsPrefix(a, b) == Len(a) <= Len(b) /\ a = SubSeq(b, 1, Len(a))

\* The for loop over the messages has ended.
AfterPlaying ==
    \/ pc \in {"drain_wait", "drain_scan", "cleanup", "done"}
    \/ pc = "post_delay" /\ ret \in {"drain", "cleanup"}

\* C14: a new controller that maps pitch 21 to channel 0 and plays
\* [note-on 21 at 0, note-off 21 at 0.5 s] writes exactly ON 0 at time 0
\* and OFF 0 at time 0.5 s (20 units): both
\* are written by the end of Playing and nothing is written after it.
C14_SingleNoteScenario ==
    (/\ score = Scenario14 /\ sessions = 1
     /\ piano_key_to_led(midi_to_piano_key(21)) = 0) =>
        /\ IsPrefix(sent, Expected14)
        /\ AfterPlaying => sent = Expected14

C14_Witness ==
    /\ score = Scenario14 /\ sessions = 1
    /\ pc = "done" /\ result = "returned"
    /\ current_time >= 40
    /\ sent = Expected14


\* Some pitch of the configured range maps to channel index i.
IsMapped(i) ==
    \E p \in min_midi_note..max_midi_note :
        piano_key_to_led(midi_to_piano_key(p)) = i

\* C16: every command written to the transport, in Playing, Draining and
\* teardown, is ON or OFF for an index i with 0 <= i < num_leds that some
\* pitch maps to.
C16_CommandsWellFormed ==
    \A n \in 1..Len(sent) :
        /\ sent[n].cmd \in {"ON", "OFF"}
        /\ 0 <= sent[n].led /\ sent[n].led < num_leds
        /\ IsMapped(sent[n].led)

\* On a strip of 2 leds a key whose led is beyond the strip has been played
\* and teardown has written an OFF.
C16_Witness ==
    /\ num_leds = 2
    /\ pc = "done" /\ mode = "finally"
    /\ \E n \in 1..Len(observed) : piano_key_to_led(observed[n]) = None
    /\ ret = "cleanup" /\ sent[Len(sent)].cmd = "OFF"


\* The keys of the note-ons of positive velocity and in-range pitch among
\* the first n messages of s, in timeline order.
RECURSIVE NoteOnKeys(_, _)
NoteOnKeys(s, n) ==
    IF n = 0 THEN <<>>
    ELSE IF NoteOn(s[n]) /\ InRange(s[n].note)
         THEN Append(NoteOnKeys(s, n - 1), s[n].note - min_midi_note + 1)
         ELSE NoteOnKeys(s, n - 1)

\* C17: play_function has been invoked exactly once, with the note's key
\* and in timeline order, for each note-on of positive velocity and
\* in-range pitch among the messages processed so far, whether or not the
\* key has a channel, and for no other message.
C17_ObserverPerNoteOn ==
    observed = NoteOnKeys(score, n_events)


\* C18: the lookup from pitch to channel is strictly increasing on the
\* pitches it maps, every channel it returns lies in 0..num_leds-1, and a
\* pitch outside the configured range, or whose key is not in the map, gets
\* None.
C18_LookupIncreasing ==
    /\ \A a, b \in 1..Len(lookups) :
          (lookups[a].pitch < lookups[b].pitch
             /\ lookups[a].led # None /\ lookups[b].led # None)
          => lookups[a].led < lookups[b].led
    /\ \A a \in 1..Len(lookups) :
          /\ lookups[a].led # None =>
                (0 <= lookups[a].led /\ lookups[a].led < num_leds)
          /\ ~InRange(lookups[a].pitch) => lookups[a].led = None
          /\ (lookups[a].pitch - min_midi_note + 1) \notin DOMAIN key_to_led_map
                => lookups[a].led = None

\* The first and the last mapped pitch of the default configuration have
\* been looked up.
C18_Witness ==
    /\ num_leds = DefaultNumLeds /\ min_midi_note = DefaultMinMidiNote
    /\ Len(lookups) = 2
    /\ lookups[1].pitch = 21 /\ lookups[1].led = 0
    /\ lookups[2].pitch = 93 /\ lookups[2].led = 140


\* Message i is a note event whose pitch is outside the configured range.
OutOfRangeEvent(s, i) == (NoteOn(s[i]) \/ NoteOff(s[i])) /\ ~InRange(s[i].note)

\* Message i is a note-off of a pitch in range that has no open note-on: the
\* pitch has no earlier event, or its latest earlier event is a note-off.
OrphanNoteOff(s, i) ==
    /\ NoteOff(s[i]) /\ InRange(s[i].note)
    /\ LET before == { j \in EventsOf(s, s[i].note) : j < i }
       IN  before # {} => NoteOff(s[MaxOf(before)])

\* The pre-pass has just returned its table.
PrePassReturns == pc = "parse" /\ pc' = "load"

\* Playing has just processed message idx.
EventProcessed == n_events' = n_events + 1

\* Every entry of the table comes from a note-on of a pitch in range that a
\* later note-off of that pitch follows.
EntriesFromClosedNotes(s, durs) ==
    \A k \in DOMAIN durs :
        \E i, j \in 1..Len(s) :
            /\ i < j /\ NoteOn(s[i]) /\ NoteOff(s[j])
            /\ s[i].note = s[j].note /\ InRange(s[i].note)
            /\ k = s[i].note - min_midi_note + 1

C19_Step ==
    /\ PrePassReturns => EntriesFromClosedNotes(score, note_durations')
    /\ (EventProcessed /\ OutOfRangeEvent(score, idx)) =>
          /\ UNCHANGED <<note_active, led_states, note_durations, sent, device,
                         observed, created>>
          /\ exc' = "none"
    /\ (EventProcessed /\ OrphanNoteOff(score, idx)) =>
          /\ created' = created
          /\ exc' = "none"

\* C19: an event whose pitch is outside the configured range changes no
\* state and writes nothing; a note-off without an open note-on of its
\* pitch creates no Active Interval; the pre-pass makes a table entry for
\* neither; and processing such an event never raises.
C19_MalformedEventsIgnored == [][C19_Step]_vars


\* The state carried by the last command written for channel c: off if no
\* command was ever written for it.
LastCommandOn(c) ==
    LET ns == { n \in 1..Len(sent) : sent[n].led = c }
    IN  ns # {} /\ sent[MaxOf(ns)].cmd = "ON"

\* led_states agrees with the last command of every channel.
TrackedIsTransmitted ==
    \A c \in 0..(num_leds - 1) : (c \in led_states) <=> LastCommandOn(c)

\* led_states[c] changes only in a step that writes a command for c.
TrackedChangesWithCommand ==
    \A c \in 0..(num_leds - 1) :
        ((c \in led_states') # (c \in led_states)) =>
            /\ Len(sent') = Len(sent) + 1
            /\ sent'[Len(sent')].led = c

\* C20: in every state, the states after teardown included, led_states[c]
\* is the state of the last command written for channel c (off if there is
\* none), and led_states[c] changes only in a step that writes a command
\* for c.
C20_TrackedStateIsLastCommand ==
    []TrackedIsTransmitted /\ [][TrackedChangesWithCommand]_vars


(***************************************************************************)
(* The end of Draining.                                                    *)
(***************************************************************************)
\* Some key has an Active Interval with t < start + duration.
SomeIntervalLive(t) ==
    \E k \in DOMAIN note_active :
        \E n \in 1..Len(note_active[k]) : Live(note_active[k][n], t)

\* The Draining loop has finished normally and the finally clause is about
\* to run cleanup.
DrainFinished ==
    pc = "cleanup" /\ mode = "finally" /\ exc = "none" /\ led_i = 0

\* cleanup has written an OFF in this session (ret keeps the place its
\* post-command delay returns to).
TeardownWrote == ret = "cleanup"

\* C21: when the Draining loop finishes, no key has an Active Interval that
\* has not expired and every channel is tracked off, so the teardown of a
\* normally completed session writes no command.
C21_DrainOutlastsIntervals ==
    /\ DrainFinished => (~SomeIntervalLive(current_time) /\ led_states = {})
    /\ (pc = "done" /\ result = "returned") => ~TeardownWrote


\* The for loop over range(num_leds) of a drain tick has just ended.
TickCompleted ==
    pc = "drain_scan" /\ pc' \in {"drain_wait", "cleanup"} /\ exc' = "none"

\* The channels that got a command since the latest drain tick began.
TickCommandLeds == { sent[n].led : n \in (tick_start.n_sent + 1)..Len(sent) }

\* The channels whose tracked state differs from the one the tick began with.
TickChangedLeds ==
    (led_states \ tick_start.leds) \cup (tick_start.leds \ led_states)

TickConsistent ==
    /\ led_states \subseteq 0..(num_leds - 1)
    /\ led_states = LiveLeds(current_time)
    /\ TickCommandLeds = TickChangedLeds
    /\ Len(sent) - tick_start.n_sent = Cardinality(TickChangedLeds)

\* C22: after the recomputation of every drain tick, every channel of the
\* strip is tracked on exactly when a key mapped to it has an Active
\* Interval with current_time < start + duration at the tick's time, and
\* the tick has written one command for each channel whose state changed
\* and for no other.
C22_TickRecomputesAll == [][TickCompleted => TickConsistent']_vars

\* A tick has ended in which a command was written, after an earlier command.
C22_Witness ==
    /\ pc \in {"drain_wait", "cleanup"} /\ exc = "none"
    /\ tick_start.n_sent > 0 /\ Len(sent) > tick_start.n_sent
    /\ TickConsistent


(***************************************************************************)
(* Removal of Active Intervals.                                            *)
(***************************************************************************)
\* The intervals of the controller that have not expired at the time the
\* step arrives at are still there after the step, in their order and ahead
\* of an interval the step appends.
UnexpiredKept ==
    \A k \in DOMAIN note_active :
        IsPrefix(Prune(note_active[k], current_time'),
                 Prune(Active(note_active', k), current_time'))

\* The step processes a note-off of a key one of whose intervals has not
\* expired at the time of the note-off.
EarlyNoteOff ==
    /\ EventProcessed /\ NoteOff(score[idx]) /\ InRange(score[idx].note)
    /\ Prune(Active(note_active, midi_to_piano_key(score[idx].note)),
             current_time') # <<>>

\* C23: no step removes an Active Interval before the logical time has
\* reached start + duration, and a note-off that arrives before the expiry
\* of an interval of its key leaves the key's channel tracked on.
C23_Step ==
    /\ UnexpiredKept
    /\ EarlyNoteOff =>
          LET led == piano_key_to_led(midi_to_piano_key(score[idx].note))
          IN  led # None => led \in led_states'

C23_TimeBasedPruning == [][C23_Step]_vars

\* A note-off has just been processed while an interval of its key, begun
\* before it, has not expired: the interval is in place and the channel on.
C23_Witness ==
    /\ n_events > 0 /\ NoteOff(score[n_events])
    /\ current_time = CumTime(score, n_events)
    /\ pc \in {"pacing", "post_delay"}
    /\ LET k == midi_to_piano_key(score[n_events].note) IN
          /\ k \in DOMAIN note_active
          /\ \E n \in 1..Len(note_active[k]) :
                /\ note_active[k][n][1] < current_time
                /\ Live(note_active[k][n], current_time)
          /\ piano_key_to_led(k) \in led_states


(***************************************************************************)
(* The table of the pre-pass, told from the timeline.                      *)
(***************************************************************************)
\* The latest event of pitch p before position j, or 0.
LatestBefore(s, p, j) ==
    LET before == { i \in EventsOf(s, p) : i < j }
    IN  IF before = {} THEN 0 ELSE MaxOf(before)

\* The note-offs of pitch p that close a note: the latest earlier event of
\* p is a note-on.  A note-off right after a note-off of p closes nothing.
Closings(s, p) ==
    { j \in EventsOf(s, p) :
        /\ NoteOff(s[j])
        /\ LatestBefore(s, p, j) # 0
        /\ NoteOn(s[LatestBefore(s, p, j)]) }

\* off_time - on_time of the closing j, on_time being that of the latest
\* note-on before j: a second note-on has overwritten the first.
ClosedDuration(s, p, j) == CumTime(s, j) - CumTime(s, LatestBefore(s, p, j))

ClosedPitches(s) == { p \in PitchesOf(s) : InRange(p) /\ Closings(s, p) # {} }

\* C24: the table the pre-pass returns has an entry exactly for the pitches
\* in range that the timeline closes, and the entry of a pitch is off_time
\* minus the latest on_time of the note closed last: a second note-on
\* overwrites the start of an open one and a further note-off is ignored.
C24_LatestStartLastClosed ==
    pc = "load" =>
        /\ DOMAIN note_durations =
               { p - min_midi_note + 1 : p \in ClosedPitches(score) }
        /\ \A p \in ClosedPitches(score) :
               note_durations[p - min_midi_note + 1] =
                   ClosedDuration(score, p, MaxOf(Closings(score, p)))

\* Pitch 21 has been started twice, closed, and got a further note-off.
C24_Witness ==
    /\ pc = "load"
    /\ score = << Msg("note_on", 21, 64, 1), Msg("note_on", 21, 64, 1),
                  Msg("note_off", 21, 0, 2), Msg("note_off", 21, 0, 3) >>
    /\ note_durations = Put(EmptyDict, 1, 2)


(***************************************************************************)
(* A write of update_led that fails.                                       *)
(***************************************************************************)
\* The step is a call of update_led whose ser.write raises.
UpdateLedWriteFails ==
    pc \in {"pacing", "drain_scan"} /\ write_fails' = write_fails + 1

\* led_states with the entry of channel c inverted.
Toggled(ls, c) == IF c \in ls THEN ls \ {c} ELSE ls \cup {c}

\* The failed write has left the tracked state as a successful one would:
\* the entry of its channel, and no other, is inverted and is the liveness
\* of the channel's keys; nothing has been written.
TrackedAsIfWritten ==
    /\ fail_at'.led \in 0..(num_leds - 1)
    /\ led_states' = Toggled(led_states, fail_at'.led)
    /\ (fail_at'.led \in led_states') <=> (fail_at'.led \in LiveLeds(current_time)')
    /\ fail_kind' = IF fail_at'.led \in led_states' THEN "ON" ELSE "OFF"
    /\ sent' = sent

\* While the tracked state of the failed command's channel is the one the
\* command carried, no later command of this session repeats it.
MissedNotResent ==
    (fail_kind # "none" /\ ((fail_at.led \in led_states) <=> (fail_kind = "ON"))) =>
        \A n \in (fail_at.n_sent + 1)..Len(sent) :
            ~(sent[n].led = fail_at.led /\ sent[n].cmd = fail_kind)

\* C25: when a write of update_led fails, led_states[c] has already been
\* set to the new state as if the write had succeeded; later tests of c
\* read that tracked state, so the missed command is not written again
\* while the state of c stays what it was set to.
C25_FailedWriteTracked ==
    [][UpdateLedWriteFails => TrackedAsIfWritten]_vars /\ []MissedNotResent

\* The write of an ON has failed and cleanup, reading the tracked state, has
\* written the OFF of that channel.
C25_Witness ==
    /\ fail_kind = "ON" /\ fail_at.led \in led_states
    /\ pc = "done"
    /\ Len(sent) > fail_at.n_sent
    /\ sent[Len(sent)] = Command(FALSE, fail_at.led, current_time)


(***************************************************************************)
(* What one timeline event touches.                                        *)
(***************************************************************************)
\* The key and the channel of message i: None for a message that is no note
\* event of a pitch in range, and for a key without a channel.
KeyOfEvent(s, i) ==
    IF (NoteOn(s[i]) \/ NoteOff(s[i])) /\ InRange(s[i].note)
    THEN s[i].note - min_midi_note + 1
    ELSE None

ChannelOfEvent(s, i) == piano_key_to_led(KeyOfEvent(s, i))

\* The step writes nothing, or one command for channel c.
WritesOnlyFor(c) ==
    \/ sent' = sent
    \/ /\ Len(sent') = Len(sent) + 1
       /\ SubSeq(sent', 1, Len(sent)) = sent
       /\ sent'[Len(sent')].led = c

\* play_midi is in Playing or Draining.
PlayingOrDraining ==
    \/ pc \in {"pacing", "drain_wait", "drain_scan"}
    \/ pc = "post_delay" /\ ret \in {"play", "drain"}

C26_Step ==
    /\ EventProcessed =>
          /\ WritesOnlyFor(ChannelOfEvent(score, idx))
          /\ \A d \in 0..(num_leds - 1) \ {ChannelOfEvent(score, idx)} :
                (d \in led_states') <=> (d \in led_states)
          /\ \A k \in (DOMAIN note_active \cup DOMAIN note_active')
                        \ {KeyOfEvent(score, idx)} :
                Active(note_active', k) = Active(note_active, k)
    /\ PlayingOrDraining => note_durations' = note_durations

\* C26: processing one timeline event writes commands only for the channel
\* of the event's pitch and leaves the tracked state of every other channel
\* and the Active Intervals of every other key unchanged; the table of the
\* pre-pass is not modified in Playing or Draining.
C26_EventFrame == [][C26_Step]_vars

\* An event of pitch 22 has been processed and has written for channel 2
\* while channel 0 is tracked on and key 1 holds an interval that has
\* expired.
C26_Witness ==
    /\ n_events = 2 /\ score[2].note = 22
    /\ current_time = CumTime(score, 2)
    /\ 0 \in led_states
    /\ 1 \in DOMAIN note_active /\ Prune(note_active[1], current_time) = <<>>
    /\ sent # <<>> /\ sent[Len(sent)].led = 2


(***************************************************************************)
(* note_on of velocity 0 for note_off.                                     *)
(***************************************************************************)
\* The pre-pass of this session has returned.
PrePassDone == pc \notin {"idle", "acquire", "parse"}

\* C27: a controller that plays a timeline in which note-offs have been
\* replaced by note-ons of velocity 0 (same pitch, same offset) gets the
\* same table from the pre-pass, invokes play_function with the same keys
\* and writes the same commands at the same times as a controller that
\* plays the original timeline.
C27_ZeroVelocityIsNoteOff ==
    first_run.ended =>
        /\ PrePassDone => note_durations = first_run.table
        /\ IsPrefix(observed, first_run.observed)
        /\ IsPrefix(sent, first_run.sent)
        /\ pc = "done" =>
              (observed = first_run.observed /\ sent = first_run.sent)

\* Both controllers are done; the note closed by a replaced note-off got a
\* table entry and commands were written.
C27_Witness ==
    /\ first_run.ended /\ pc = "done" /\ result = "returned"
    /\ score # first_run.score
    /\ note_durations # EmptyDict
    /\ Len(sent) >= 2 /\ observed # <<>>


(***************************************************************************)
(* A second session on the same controller.                                *)
(***************************************************************************)
\* play_midi has just been called again.
StartedAgain == sessions >= 2 /\ pc \in {"acquire", "parse"}

\* C28: when play_midi is started again on a controller whose earlier
\* session has ended, every led_states entry is false and every key's list
\* of Active Intervals is empty.
C28_NothingPersists ==
    StartedAgain => (led_states = {} /\ note_active = EmptyDict)


\* play_midi has returned or raised and the caller has not yet reacted.
PlayMidiLeft == pc = "done" /\ sessions > 0 /\ ~handled

\* C29: when play_midi has returned or raised, a transport that it opened
\* itself is closed, whatever made it leave.
C29_OwnedTransportClosed ==
    (PlayMidiLeft /\ own_ser) => ~port_open


(***************************************************************************)
(* The channel of a note-on.                                               *)
(***************************************************************************)
\* The step processes, without raising, a note-on of positive velocity
\* whose pitch has a channel.
MappedNoteOnProcessed ==
    /\ EventProcessed /\ exc' = "none"
    /\ NoteOn(score[idx])
    /\ ChannelOfEvent(score, idx) # None

\* The duration the note-on of message i gets: the table entry of its key,
\* or the default.
DurationOfEvent(s, i) == Get(note_durations, KeyOfEvent(s, i), DefaultDuration)

\* The last of the commands snt written for channel c is an ON.
LastIsOn(snt, c) ==
    LET ns == { n \in 1..Len(snt) : snt[n].led = c }
    IN  ns # {} /\ snt[MaxOf(ns)].cmd = "ON"

WrittenFor(snt, c) == \E n \in 1..Len(snt) : snt[n].led = c

PlayingEnd == end_time - MaxDuration(note_durations)

\* The number of 0.05 s ticks the while loop has taken.
DrainTicks == (current_time - PlayingEnd) \div DrainTick

\* The least n with n * 0.05 >= d.
LeastTicks(d) ==
    CHOOSE n \in 0..d :
        /\ n * DrainTick >= d
        /\ \A m \in 0..(n - 1) : m * DrainTick < d

SessionStarted == pc \in {"acquire", "parse"}

SessionEnded == pc = "done" /\ sessions > 0

\* C31: with writes that succeed, play_midi terminates for every finite
\* timeline: Playing processes the events one by one in timeline order, each
\* exactly once; the drain takes the least number of ticks that covers the
\* largest value of the Duration Table (none when the table is empty); and
\* the session then reaches Closed.
C31_PlayMidiTerminates ==
    /\ [][EventProcessed => idx = n_events + 1]_vars
    /\ [](SessionEnded =>
            /\ n_events = Len(score)
            /\ DrainTicks = LeastTicks(MaxDuration(note_durations))
            /\ Closed)
    /\ (SessionStarted ~> Closed)

(***************************************************************************)
(* The configured pitch range against the controller's tables.             *)
(***************************************************************************)
\* key in self.note_active: its keys are range(1, 89), whatever the bounds.
HasEntry(key) == key \in 1..NumPianoKeys

\* led is an index of self.led_states = [False] * num_leds.
ValidIndex(led) == led \in 0..(num_leds - 1)

\* Playing has processed a note event of a pitch in the configured range.
InRangeNoteProcessed == EventProcessed /\ KeyOfEvent(score, idx) # None

\* C32: for every configuration, the key of a pitch in
\* [min_midi_note, max_midi_note] has an entry in note_active and the index
\* piano_key_to_led returns for it, if any, is an index of led_states, so
\* processing a note event of a pitch in range never raises.
C32_InRangeNeverRaises ==
    [][InRangeNoteProcessed =>
          /\ HasEntry(KeyOfEvent(score, idx))
          /\ ChannelOfEvent(score, idx) # None =>
                ValidIndex(ChannelOfEvent(score, idx))
          /\ exc' = "none"]_vars

====
